---- MODULE Spec2Model ----
(***************************************************************************)
(* Page-Spark backend: the generation / sanitization pipeline of           *)
(* core/services.py (GenericPageService, OpenRouterService,                *)
(* HtmlSanitizationService, CdnVerificationService), the prompt compiler   *)
(* of core/meta_prompt.py and the Page store of core/models.py.            *)
(*                                                                         *)
(* Representation of texts.  An HTML text is the sequence of its markup    *)
(* tokens (start tag, end tag, empty-element tag, text run, document-type  *)
(* declaration).  A name (tag attribute name) is the sequence of its       *)
(* characters, so that str.startswith is a prefix test.  An attribute      *)
(* value is a sequence of chunks; the three allow-listed strings are       *)
(* chunks, so that Python's `x in value` is membership of a chunk.         *)
(***************************************************************************)
EXTENDS Integers, Sequences, FiniteSets, TLC

VARIABLES
    reqs,       \* the calls of generate_page in this run (their identities)
    provider,   \* the answers the generation provider may give
    request,    \* request[r]: the arguments of call r
    frame,      \* frame[r]: the local variables of call r and where it stands
    count,      \* count[r]: bookkeeping of the external calls of call r
    returned,   \* returned[r]: what call r gave back to its caller
    pages,      \* the Page table (Page.objects), in order of creation
    doc,        \* harness: the argument of sanitize, verify_links or construct_prompt
    out,        \* harness: what that call returned
    phase,      \* harness: "idle" | "raw" | "clean" | "links" | "verified" |
                \*          "fields" | "compiled" | "store"
    probed,     \* harness: what requests.head did for each external link
    log         \* store harness: the operations on Page so far, [op, id]

pipeVars == <<reqs, provider, request, frame, count, returned, pages>>

sanVars == <<doc, out, phase, probed, log>>

vars == <<reqs, provider, request, frame, count, returned, pages, doc, out, phase, probed, log>>

(***************************************************************************)
(* Names, values and the constants of HtmlSanitizationService.sanitize     *)
(***************************************************************************)
TAILWIND_CDN == "https://cdn.tailwindcss.com"

ALLOWED_SCRIPTS == <<TAILWIND_CDN, "cdnjs.cloudflare.com", "kit.fontawesome.com">>

A_src == <<"s", "r", "c">>

A_href == <<"h", "r", "e", "f">>

A_charset == <<"c", "h", "a", "r", "s", "e", "t">>

A_name == <<"n", "a", "m", "e">>

A_content == <<"c", "o", "n", "t", "e", "n", "t">>

A_lang == <<"l", "a", "n", "g">>

A_class == <<"c", "l", "a", "s", "s">>

A_onclick == <<"o", "n", "c", "l", "i", "c", "k">>

A_onload == <<"o", "n", "l", "o", "a", "d">>

\* the tags the html.parser tree builder closes at once (no content)
VoidTags == {"meta", "link"}

\* Python: sub in value
Contains(value, sub) == \E i \in DOMAIN value : value[i] = sub

\* Python: attr.startswith('on')
StartsWithOn(attr) == Len(attr) >= 2 /\ attr[1] = "o" /\ attr[2] = "n"

\* Python: l.startswith('http'); of the chunks used here only these begin
\* so, the last of them the start of a relative path
StartsWithHttp(value) ==
    Len(value) >= 1 /\ value[1] \in {TAILWIND_CDN, "https://", "http://", "httpdocs/"}

(***************************************************************************)
(* The tree BeautifulSoup builds: a forest of nodes                        *)
(*   [name, attrs, kids, data]                                             *)
(* name "#text" is a text run (data its text), "#doctype" a document-type  *)
(* declaration (data its content), any other name an element.  attrs is    *)
(* the ordered attribute dictionary: a sequence of <<name, value>>.        *)
(***************************************************************************)
Elem(name, attrs, kids) == [name |-> name, attrs |-> attrs, kids |-> kids, data |-> ""]

Text(s) == [name |-> "#text", attrs |-> << >>, kids |-> << >>, data |-> s]

Doctype(s) == [name |-> "#doctype", attrs |-> << >>, kids |-> << >>, data |-> s]

IsTag(n) == n.name \notin {"#text", "#doctype"}

HasAttr(n, a) == \E i \in DOMAIN n.attrs : n.attrs[i][1] = a

\* tag.get(a, ''): the value of attribute a, '' when absent
GetAttr(n, a) ==
    IF HasAttr(n, a)
    THEN n.attrs[CHOOSE i \in DOMAIN n.attrs : n.attrs[i][1] = a][2]
    ELSE << >>

RECURSIVE NodeAt(_, _)
\* the node at path p (child indices from the root) of forest f
NodeAt(f, p) ==
    IF Len(p) = 1 THEN f[p[1]] ELSE NodeAt(f[p[1]].kids, Tail(p))

\* the children of the node at path p; the empty path is the soup itself
KidsAt(f, p) == IF p = << >> THEN f ELSE NodeAt(f, p).kids

RECURSIVE SetKids(_, _, _)
\* forest f with the children of the node at path p replaced
SetKids(f, p, kids) ==
    IF p = << >> THEN kids
    ELSE [f EXCEPT ![p[1]].kids = SetKids(@, Tail(p), kids)]

RECURSIVE PathsFrom(_, _, _)
\* the paths of the nodes f[i..] and their descendants, in document order
PathsFrom(f, prefix, i) ==
    IF i > Len(f) THEN << >>
    ELSE <<Append(prefix, i)>>
         \o PathsFrom(f[i].kids, Append(prefix, i), 1)
         \o PathsFrom(f, prefix, i + 1)

\* soup.find_all(...): the paths of the matching nodes, in document order
FindAll(f, Test(_)) == SelectSeq(PathsFrom(f, << >>, 1), LAMBDA p : Test(NodeAt(f, p)))

AllButLast(s) == SubSeq(s, 1, Len(s) - 1)

\* Tag.insert(position, new_child) on the node at path p
InsertAt(f, p, position, node) ==
    LET kids == KidsAt(f, p)
        at == IF position > Len(kids) THEN Len(kids) ELSE position
    IN  SetKids(f, p, SubSeq(kids, 1, at) \o <<node>> \o SubSeq(kids, at + 1, Len(kids)))

\* Tag.append(new_child) on the node at path p
AppendTo(f, p, node) == SetKids(f, p, Append(KidsAt(f, p), node))

\* Tag.decompose() / Tag.extract() of the node at path p
RemoveAt(f, p) ==
    LET par == AllButLast(p)
        kids == KidsAt(f, par)
        i == p[Len(p)]
    IN  SetKids(f, par, SubSeq(kids, 1, i - 1) \o SubSeq(kids, i + 1, Len(kids)))

RECURSIVE DecomposeAll(_, _)
\* decompose every node of a find_all result; the later paths go first, so
\* that the paths still to be used stay valid
DecomposeAll(f, paths) ==
    IF paths = << >> THEN f
    ELSE DecomposeAll(RemoveAt(f, paths[Len(paths)]), AllButLast(paths))

\* the path of the node at h after the node at p was extracted
PathAfterRemoval(h, p) ==
    LET k == Len(p)
    IN  IF   Len(h) >= k /\ SubSeq(h, 1, k - 1) = SubSeq(p, 1, k - 1) /\ p[k] < h[k]
        THEN [h EXCEPT ![k] = @ - 1]
        ELSE h

(***************************************************************************)
(* str(soup): the tree written out as text                                 *)
(***************************************************************************)
TokOpen(n) == [t |-> "open", name |-> n.name, attrs |-> n.attrs, data |-> ""]

TokVoid(n) == [t |-> "void", name |-> n.name, attrs |-> n.attrs, data |-> ""]

TokClose(n) == [t |-> "close", name |-> n.name, attrs |-> << >>, data |-> ""]

TokText(s) == [t |-> "text", name |-> "#text", attrs |-> << >>, data |-> s]

TokDoctype(s) == [t |-> "doctype", name |-> "#doctype", attrs |-> << >>, data |-> s]

RECURSIVE Serialize(_)
\* a document-type declaration is written with a line break after it
\* (Doctype.SUFFIX)
Serialize(f) ==
    IF f = << >> THEN << >>
    ELSE LET n == Head(f)
             here == IF n.name = "#text" THEN <<TokText(n.data)>>
                     ELSE IF n.name = "#doctype"
                          THEN <<TokDoctype(n.data), TokText("\n")>>
                     ELSE IF n.name \in VoidTags /\ n.kids = << >> THEN <<TokVoid(n)>>
                     ELSE <<TokOpen(n)>> \o Serialize(n.kids) \o <<TokClose(n)>>
         IN  here \o Serialize(Tail(f))

(***************************************************************************)
(* BeautifulSoup(text, 'html.parser'): the tree built from a text.  The    *)
(* stack holds the open elements, the soup itself at the bottom.           *)
(***************************************************************************)
\* close the innermost open element: it becomes the last child of the one below
PopTag(stack) ==
    LET k == Len(stack)
    IN  [SubSeq(stack, 1, k - 1) EXCEPT ![k - 1].kids = Append(@, stack[k])]

RECURSIVE PopTo(_, _)
\* pop down to and including the element at depth d
PopTo(stack, d) == IF Len(stack) < d THEN stack ELSE PopTo(PopTag(stack), d)

AddLeaf(stack, n) == [stack EXCEPT ![Len(stack)].kids = Append(@, n)]

\* one parser event
Feed(stack, tok) ==
    IF tok.t = "text" THEN AddLeaf(stack, Text(tok.data))
    ELSE IF tok.t = "doctype" THEN AddLeaf(stack, Doctype(tok.data))
    ELSE IF tok.t = "void" \/ (tok.t = "open" /\ tok.name \in VoidTags)
         THEN AddLeaf(stack, Elem(tok.name, tok.attrs, << >>))
    ELSE IF tok.t = "open" THEN Append(stack, Elem(tok.name, tok.attrs, << >>))
    ELSE \* an end tag closes the innermost open element of that name, if any
         LET open == {d \in 2..Len(stack) : stack[d].name = tok.name}
         IN  IF open = {} THEN stack
             ELSE PopTo(stack, CHOOSE d \in open : \A e \in open : e <= d)

RECURSIVE ParseFrom(_, _, _)
\* the events of text from the i-th on; at the end every open element is closed
ParseFrom(stack, text, i) ==
    IF Len(stack) >= 1 /\ i > Len(text) THEN PopTo(stack, 2)[1].kids
    ELSE ParseFrom(Feed(stack, text[i]), text, i + 1)

Parse(text) == ParseFrom(<<Elem("[document]", << >>, << >>)>>, text, 1)

(***************************************************************************)
(* HtmlSanitizationService.sanitize, step by step.  The steps after the    *)
(* parse work on [soup, html, head]: the tree and the paths of the nodes   *)
(* the variables html_tag and head refer to (<<0>>: not yet bound).        *)
(***************************************************************************)
IsScript(n) == n.name = "script"

IsStyle(n) == n.name = "style"

\* src=lambda x: x and TAILWIND_CDN in x
IsTailwindScript(n) ==
    /\ n.name = "script"
    /\ HasAttr(n, A_src)
    /\ GetAttr(n, A_src) # << >>
    /\ Contains(GetAttr(n, A_src), TAILWIND_CDN)

\* any(allowed in src for allowed in ALLOWED_SCRIPTS)
AnyAllowed(src) == \E i \in DOMAIN ALLOWED_SCRIPTS : Contains(src, ALLOWED_SCRIPTS[i])

\* ScriptDecomposed with `elif src and not any(...)`: a script without src stays
ScriptDecomposedInlineKept(src) ==
    IF Contains(src, TAILWIND_CDN) THEN TRUE
    ELSE src # << >> /\ ~AnyAllowed(src)

\* step 2, the two branches that decompose a script with this src
ScriptDecomposed(src) ==
    IF Contains(src, TAILWIND_CDN) THEN TRUE
    ELSE ~AnyAllowed(src)

\* step 2: remove the scripts, the allow-listed ones that are not Tailwind excepted
RemoveScripts(soup) ==
    LET scripts == FindAll(soup, IsScript)
        gone == SelectSeq(scripts,
                    LAMBDA p : ScriptDecomposed(GetAttr(NodeAt(soup, p), A_src)))
    IN  DecomposeAll(soup, gone)

\* step 3, one tag: del tag[attr] for every attr that starts with 'on'
WithoutHandlers(attrs) == SelectSeq(attrs, LAMBDA kv : ~StartsWithOn(kv[1]))

\* RemoveHandlers over soup.find_all(recursive=False): the top-level tags only
RemoveHandlersTopLevel(soup) ==
    [i \in DOMAIN soup |->
        IF IsTag(soup[i]) THEN [soup[i] EXCEPT !.attrs = WithoutHandlers(@)] ELSE soup[i]]

RECURSIVE RemoveHandlers(_)
\* step 3: every tag of soup.find_all()
RemoveHandlers(soup) ==
    [i \in DOMAIN soup |->
        IF IsTag(soup[i])
        THEN [soup[i] EXCEPT !.attrs = WithoutHandlers(@), !.kids = RemoveHandlers(@)]
        ELSE soup[i]]

\* RemoveStyles over soup.find_all('style', recursive=False): top level only
RemoveStylesTopLevel(soup) ==
    SelectSeq(soup, LAMBDA n : ~IsStyle(n))

\* step 4: remove the style tags
RemoveStyles(soup) == DecomposeAll(soup, FindAll(soup, IsStyle))

\* step 5: the html tag; without one, every top-level node is wrapped in a new one
EnsureHtml(soup) ==
    LET found == FindAll(soup, LAMBDA n : n.name = "html")
    IN  IF found # << >>
        THEN [soup |-> soup, html |-> found[1], head |-> <<0>>]
        ELSE [soup |-> <<Elem("html", <<<<A_lang, <<"en">>>>>>, soup)>>,
              html |-> <<1>>, head |-> <<0>>]

\* step 6: the head; without one, a new one is put first in the html tag
EnsureHead(s) ==
    LET found == FindAll(s.soup, LAMBDA n : n.name = "head")
    IN  IF found # << >>
        THEN [s EXCEPT !.head = found[1]]
        ELSE [s EXCEPT !.soup = InsertAt(s.soup, s.html, 0, Elem("head", << >>, << >>)),
                       !.head = Append(s.html, 1)]

\* the parent of the node at path p; a top-level node's parent is the soup
ParentNode(soup, p) ==
    IF Len(p) = 1 THEN Elem("[document]", << >>, soup) ELSE NodeAt(soup, AllButLast(p))

\* EnsureTailwind with html_tag.append(script) for the new script
EnsureTailwindInHtml(s) ==
    LET found == FindAll(s.soup, IsTailwindScript)
    IN  IF found # << >> THEN s
        ELSE [s EXCEPT !.soup = AppendTo(s.soup, s.html,
                            Elem("script", <<<<A_src, <<TAILWIND_CDN>>>>>>, << >>))]

\* step 7: a Tailwind script in head: the first one found is moved there
\* unless its parent equals head (Tag.__ne__ compares name, attributes and
\* contents); without one a new one is appended
EnsureTailwind(s) ==
    LET found == FindAll(s.soup, IsTailwindScript)
    IN  IF found # << >>
        THEN LET p == found[1]
                 tailwind_script == NodeAt(s.soup, p)
             IN  IF ParentNode(s.soup, p) # NodeAt(s.soup, s.head)
                 THEN LET head == PathAfterRemoval(s.head, p)
                      IN  [s EXCEPT !.soup = AppendTo(RemoveAt(s.soup, p), head,
                                                      tailwind_script),
                                    !.head = head]
                 ELSE s
        ELSE [s EXCEPT !.soup = AppendTo(s.soup, s.head,
                            Elem("script", <<<<A_src, <<TAILWIND_CDN>>>>>>, << >>))]

\* soup.find('meta', charset=True)
IsCharsetMeta(n) == n.name = "meta" /\ HasAttr(n, A_charset)

\* soup.find('meta', attrs={'name': 'viewport'})
IsViewportMeta(n) ==
    n.name = "meta" /\ HasAttr(n, A_name) /\ GetAttr(n, A_name) = <<"viewport">>

\* step 8: without a meta carrying charset, a new one is put first in head
EnsureCharset(s) ==
    LET found == FindAll(s.soup, IsCharsetMeta)
    IN  IF found # << >> THEN s
        ELSE [s EXCEPT !.soup = InsertAt(s.soup, s.head, 0,
                            Elem("meta", <<<<A_charset, <<"UTF-8">>>>>>, << >>))]

\* step 9: without a meta named viewport, a new one is put at index 1 of head
EnsureViewport(s) ==
    LET found == FindAll(s.soup, IsViewportMeta)
    IN  IF found # << >> THEN s
        ELSE [s EXCEPT !.soup = InsertAt(s.soup, s.head, 1,
                            Elem("meta", <<<<A_name, <<"viewport">>>>,
                                           <<A_content, <<"width=device-width, initial-scale=1.0">>>>>>,
                                 << >>))]

\* step 10: of several Tailwind scripts all but the first are removed
DedupeTailwind(s) ==
    LET tw_scripts == FindAll(s.soup, IsTailwindScript)
    IN  IF Len(tw_scripts) > 1
        THEN [s EXCEPT !.soup = DecomposeAll(s.soup, Tail(tw_scripts))]
        ELSE s

\* the text runs that are white space only
Whitespace == {"\n", " "}

IsBlank(tok) == tok.t = "text" /\ tok.data \in Whitespace

RECURSIVE LStrip(_)
LStrip(text) ==
    IF text # << >> /\ IsBlank(Head(text)) THEN LStrip(Tail(text)) ELSE text

RECURSIVE RStrip(_)
RStrip(text) ==
    IF text # << >> /\ IsBlank(text[Len(text)]) THEN RStrip(AllButLast(text)) ELSE text

\* str.strip()
Strip(text) == RStrip(LStrip(text))

\* str.lower() of the content of a document-type declaration
Lower(s) == IF s \in {"HTML", "Html"} THEN "html" ELSE s

\* final_body.lower().startswith('<!doctype html>')
StartsWithDoctypeHtml(text) ==
    text # << >> /\ Head(text).t = "doctype" /\ Lower(Head(text).data) = "html"

\* step 11: the tree as text, after one '<!DOCTYPE html>\n'
Assemble(soup) ==
    LET final_body == Strip(Serialize(soup))
    IN  IF StartsWithDoctypeHtml(final_body)
        THEN <<TokDoctype("html"), TokText("\n")>> \o Strip(Tail(final_body))
        ELSE <<TokDoctype("html"), TokText("\n")>> \o final_body

\* steps 2 to 10 on the parsed tree
SanitizeTree(soup) ==
    DedupeTailwind(EnsureViewport(EnsureCharset(EnsureTailwind(EnsureHead(EnsureHtml(
        RemoveStyles(RemoveHandlers(RemoveScripts(soup))))))))).soup

\* HtmlSanitizationService.sanitize(html_content)
sanitize(html_content) == Assemble(SanitizeTree(Parse(html_content)))

(***************************************************************************)
(* CdnVerificationService.verify_links.  probes[i] is what requests.head   *)
(* does for the i-th external link: [raised, status_code].                 *)
(***************************************************************************)
\* CollectedLinks without the loop over the scripts: link href values only
CollectedLinksHrefOnly(html_content) ==
    LET soup == Parse(html_content)
        links == FindAll(soup, LAMBDA n : n.name = "link" /\ HasAttr(n, A_href))
    IN  [i \in 1..Len(links) |-> GetAttr(NodeAt(soup, links[i]), A_href)]

\* the links collected: script src values, then link href values
CollectedLinks(html_content) ==
    LET soup == Parse(html_content)
        scripts == FindAll(soup, LAMBDA n : n.name = "script" /\ HasAttr(n, A_src))
        links == FindAll(soup, LAMBDA n : n.name = "link" /\ HasAttr(n, A_href))
    IN  [i \in 1..Len(scripts) |-> GetAttr(NodeAt(soup, scripts[i]), A_src)]
        \o [i \in 1..Len(links) |-> GetAttr(NodeAt(soup, links[i]), A_href)]

\* external_links = [l for l in links if l.startswith('http')]
ExternalLinks(html_content) == SelectSeq(CollectedLinks(html_content), StartsWithHttp)

\* ProbeBroken with `except Exception: pass`: a probe that raised is let through
ProbeBrokenStatusOnly(probe) == probe.status_code >= 400

\* one probe counts as broken: status_code >= 400, or the request raised
ProbeBroken(probe) == probe.raised \/ probe.status_code >= 400

verify_links(html_content, probes) ==
    LET external_links == ExternalLinks(html_content)
        bad == {i \in DOMAIN external_links : ProbeBroken(probes[i])}
        RECURSIVE Pick(_)
        Pick(i) == IF i > Len(external_links) THEN << >>
                   ELSE (IF i \in bad THEN <<external_links[i]>> ELSE << >>) \o Pick(i + 1)
    IN  Pick(1)

\* requests.head on the Tailwind URL was made and did not count as broken
TailwindReached(html_content, probes) ==
    LET external_links == ExternalLinks(html_content)
    IN  \E i \in DOMAIN external_links :
            external_links[i] = <<TAILWIND_CDN>> /\ ~ProbeBroken(probes[i])

\* what a probe can do
ProbeOutcomes ==
    {[raised |-> TRUE, status_code |-> 0]}
    \cup {[raised |-> FALSE, status_code |-> c] : c \in {200, 399, 400, 404}}

(***************************************************************************)
(* OpenRouterService: get_fallback_html and generate_html.  A prompt is    *)
(* [len, text, details]: its length in characters, its text as markup      *)
(* tokens (it is pasted into the fallback document as it is) and, for a    *)
(* compiled prompt, the lines of its Content Details block.                *)
(***************************************************************************)
Attr(a, v) == <<a, <<v>>>>

\* the fallback document up to the place of the prompt (runs of white space
\* inside body are left out)
FallbackBefore ==
    <<TokText("\n"), TokDoctype("html"), TokText("\n")>>
    \o <<TokOpen(Elem("html", <<Attr(A_lang, "en")>>, << >>)), TokText("\n")>>
    \o Serialize(<<Elem("head", << >>,
                     <<Text("\n"),
                       Elem("meta", <<Attr(A_charset, "UTF-8")>>, << >>), Text("\n"),
                       Elem("meta", <<Attr(A_name, "viewport"),
                                      Attr(A_content, "width=device-width, initial-scale=1.0")>>,
                            << >>), Text("\n"),
                       Elem("title", << >>, <<Text("Service Unavailable")>>), Text("\n"),
                       Elem("script", <<Attr(A_src, TAILWIND_CDN)>>, << >>), Text("\n")>>),
                  Text("\n")>>)
    \o <<TokOpen(Elem("body", <<Attr(A_class, "bg-slate-50")>>, << >>)),
         TokOpen(Elem("div", <<Attr(A_class, "max-w-md")>>, << >>))>>
    \o Serialize(<<Elem("div", <<Attr(A_class, "text-red-500")>>,
                     <<Elem("svg", <<Attr(A_class, "h-12 w-12")>>,
                            <<Elem("path", << >>, << >>)>>)>>),
                  Elem("h1", <<Attr(A_class, "text-2xl")>>,
                       <<Text("Service Temporarily Unavailable")>>),
                  Elem("p", <<Attr(A_class, "text-slate-600")>>,
                       <<Text("We couldn't generate your page")>>)>>)
    \o <<TokOpen(Elem("div", <<Attr(A_class, "bg-slate-100")>>, << >>))>>
    \o Serialize(<<Elem("strong", << >>, <<Text("Your Prompt:")>>)>>)

\* the fallback document after the prompt
FallbackAfter ==
    <<TokClose(Elem("div", << >>, << >>)), TokClose(Elem("div", << >>, << >>)),
      TokText("\n"), TokClose(Elem("body", << >>, << >>)),
      TokText("\n"), TokClose(Elem("html", << >>, << >>)), TokText("\n")>>

get_fallback_html(prompt) == FallbackBefore \o prompt.text \o FallbackAfter

IsThinkOpen(tok) == tok.t = "open" /\ tok.name = "think"

IsThinkClose(tok) == tok.t = "close" /\ tok.name = "think"

RECURSIVE RemoveThink(_)
\* re.sub(r'<think>.*?</think>', '', content, flags=re.DOTALL)
RemoveThink(content) ==
    LET opens == {i \in DOMAIN content : IsThinkOpen(content[i])}
        pairs == {i \in opens : \E j \in DOMAIN content : j > i /\ IsThinkClose(content[j])}
    IN  IF pairs = {} THEN content
        ELSE LET i == CHOOSE x \in pairs : \A y \in pairs : x <= y
                 j == CHOOSE x \in DOMAIN content :
                          /\ x > i /\ IsThinkClose(content[x])
                          /\ \A y \in DOMAIN content :
                                 (y > i /\ IsThinkClose(content[y])) => x <= y
             IN  SubSeq(content, 1, i - 1)
                 \o RemoveThink(SubSeq(content, j + 1, Len(content)))

\* the two Markdown fence lines, three backquotes each
FenceHtml == TokText("[3 backquotes]html")

Fence == TokText("[3 backquotes]")

\* the Markdown fence around the content, when the model wrote one
StripFences(content) ==
    LET a == IF content # << >> /\ Head(content) = FenceHtml
             THEN Strip(Tail(content)) ELSE content
    IN  IF a # << >> /\ a[Len(a)] = Fence THEN Strip(AllButLast(a)) ELSE a

\* the provider's answers that make the try block of generate_html raise
FailedResponses ==
    {[kind |-> k, content |-> << >>] :
        k \in {"transport_error", "http_error", "no_choices", "no_content"}}

\* what the try block raises on the provider's answer: requests.post raises,
\* raise_for_status raises, the choices test raises ValueError, the lookup of
\* ["message"]["content"] raises KeyError; "None": nothing
RaisedInTry(response) ==
    CASE response.kind = "transport_error" -> "RequestException"
      [] response.kind = "http_error" -> "HTTPError"
      [] response.kind = "no_choices" -> "ValueError"
      [] response.kind = "no_content" -> "KeyError"
      [] OTHER -> "None"

\* Caught with `except requests.RequestException`: the errors of the request only
CaughtRequestErrorsOnly(exc) == exc \in {"RequestException", "HTTPError"}

\* `except Exception as e` of generate_html: every exception of the try block
Caught(exc) == TRUE

\* OpenRouterService.generate_html(prompt, page_type, theme), given the
\* provider's answer to the request
generate_html(prompt, response) ==
    IF response.kind = "ok"
    THEN StripFences(Strip(RemoveThink(Strip(response.content))))
    ELSE get_fallback_html(prompt)

(***************************************************************************)
(* MetaPromptService.construct_prompt.  user_data is the ordered mapping   *)
(* of its fields: a sequence of [key, klen, value, vlen], klen and vlen    *)
(* the lengths of key and value in characters (vlen = 0: an empty value).  *)
(* The mappings used here carry no specific_fields sub-mapping.            *)
(***************************************************************************)
exclude_keys ==
    {"occasion", "email", "theme", "title", "specific_fields", "visual_richness", "ui_tier"}

\* the length of the compiled prompt of an empty mapping
BasePromptLen == 3671

\* len('generic'), the default of occasion
DefaultOccasionLen == 7

\* len('modern'), the default of theme
DefaultThemeLen == 6

\* len('medium'), the default of visual_richness
DefaultRichnessLen == 6

\* len('festive') = len('premium'), the defaults of ui_tier
DefaultTierLen == 7

\* len('- ') + len(': ') + the line break
LineOverhead == 5

FieldOf(user_data, key) ==
    LET at == {i \in DOMAIN user_data : user_data[i].key = key}
    IN  IF at = {} THEN [key |-> key, klen |-> 0, value |-> "", vlen |-> 0]
        ELSE user_data[CHOOSE i \in at : TRUE]

HasField(user_data, key) == \E i \in DOMAIN user_data : user_data[i].key = key

RECURSIVE SumLen(_)
SumLen(lines) ==
    IF lines = << >> THEN 0
    ELSE Head(lines).klen + Head(lines).vlen + LineOverhead + SumLen(Tail(lines))

\* ContentDetails without `and value`: a field with an empty value is listed
ContentDetailsWithEmpty(user_data) ==
    SelectSeq(user_data, LAMBDA f : f.key \notin exclude_keys)

\* the fields listed under Content Details
ContentDetails(user_data) ==
    SelectSeq(user_data, LAMBDA f : f.key \notin exclude_keys /\ f.vlen > 0)

\* user_data.get(key, default): the length of the value
GetLen(user_data, key, default) ==
    IF HasField(user_data, key) THEN FieldOf(user_data, key).vlen ELSE default

construct_prompt(user_data) ==
    LET occasion == GetLen(user_data, "occasion", DefaultOccasionLen)
        title == GetLen(user_data, "title", 0)
        theme == GetLen(user_data, "theme", DefaultThemeLen)
        visual_richness == GetLen(user_data, "visual_richness", DefaultRichnessLen)
        ui_tier == GetLen(user_data, "ui_tier", DefaultTierLen)
        lines == ContentDetails(user_data)
    IN  [len |-> BasePromptLen
                 - DefaultOccasionLen - DefaultThemeLen - DefaultRichnessLen - DefaultTierLen
                 + occasion + title + theme + visual_richness + ui_tier + SumLen(lines),
         text |-> <<TokText("You are a professional web designer")>>,
         details |-> [i \in DOMAIN lines |-> lines[i].key]]

(***************************************************************************)
(* GenericPageService.generate_page: one call is the steps Call, then per  *)
(* attempt Generate, Sanitize, Verify (each of which may raise), then      *)
(* Save.  frame[r].pc is where call r stands:                              *)
(*   "call" "generate" "sanitize" "verify" "save" "done" "raised"          *)
(***************************************************************************)
max_retries == 3

MaxPromptLen == 70000

\* TooLong with >= for >
TooLongInclusive(prompt) == prompt.len >= MaxPromptLen

\* if len(prompt) > 70000
TooLong(prompt) == prompt.len > MaxPromptLen

\* step 0: the prompt generate_page works with
CompiledPrompt(req) ==
    IF req.user_data # << >> THEN construct_prompt(req.user_data) ELSE req.prompt

NoResult == [kind |-> "none", exc |-> "", page |-> 0]

Raised(exc) == [kind |-> "raised", exc |-> exc, page |-> 0]

ReturnedPage(id) == [kind |-> "page", exc |-> "", page |-> id]

InitFrame(req) ==
    [pc |-> "call", prompt |-> req.prompt, attempt |-> 0, last_error |-> "None",
     clean_html |-> << >>, raw_html |-> << >>, broken_links |-> << >>]

\* bookkeeping: the number of calls of each collaborator (returned or raised),
\* the attempt (from 1) whose Generate and whose Sanitize returned last, what
\* that Sanitize returned, the attempt at which Verify returned an empty list
\* (0: none), the number of non-empty lists Verify returned, the pages created
\* to Page.objects.create; the prompts handed to generate_html, call by call,
\* and the kind of the provider's answer in the last of these calls ("unsent":
\* the call raised before its request); the number of calls of construct_prompt;
\* the attempts (from 1) at which the probe of the Tailwind URL succeeded
InitCount ==
    [generate |-> 0, sanitize |-> 0, verify |-> 0,
     generated_at |-> 0, sanitized_at |-> 0, artifact |-> << >>,
     passed_at |-> 0, failed |-> 0, saves |-> 0,
     prompts |-> << >>, response |-> "none", compiles |-> 0, cdn_ok |-> {}]

\* bookkeeping of one call of generate_html
CountGenerate(c, f, kind) ==
    [c EXCEPT !.generate = @ + 1, !.prompts = Append(@, f.prompt), !.response = kind]

\* AfterVerify without the break: a verified attempt is followed by the next one
AfterVerifyNoBreak(f, broken_links) ==
    IF f.attempt = max_retries - 1
    THEN [f EXCEPT !.broken_links = broken_links, !.pc = "save"]
    ELSE [f EXCEPT !.broken_links = broken_links, !.pc = "generate", !.attempt = @ + 1]

\* AfterVerify with the loop running one attempt too many
AfterVerifyOneMore(f, broken_links) ==
    IF broken_links = << >> THEN [f EXCEPT !.broken_links = broken_links, !.pc = "save"]
    ELSE IF f.attempt = max_retries
         THEN [f EXCEPT !.broken_links = broken_links, !.pc = "save"]
         ELSE [f EXCEPT !.broken_links = broken_links, !.pc = "generate",
                        !.attempt = @ + 1]

\* lines 66-72 and the loop header: after Verify returned broken_links
AfterVerify(f, broken_links) ==
    IF broken_links = << >> THEN [f EXCEPT !.broken_links = broken_links, !.pc = "save"]
    ELSE IF f.attempt = max_retries - 1
         THEN [f EXCEPT !.broken_links = broken_links, !.pc = "save"]
         ELSE [f EXCEPT !.broken_links = broken_links, !.pc = "generate",
                        !.attempt = @ + 1]

\* AfterException that runs the same attempt again (the attempt is not counted)
AfterExceptionSameAttempt(f, e) ==
    IF f.attempt = max_retries - 1
    THEN [f EXCEPT !.last_error = e, !.pc = "raised"]
    ELSE [f EXCEPT !.last_error = e, !.pc = "generate"]

\* AfterException with a bare raise: the first exception ends the call
AfterExceptionAlwaysRaise(f, e) == [f EXCEPT !.last_error = e, !.pc = "raised"]

\* lines 74-78 and the loop header: an exception e inside the attempt
AfterException(f, e) ==
    IF f.attempt = max_retries - 1
    THEN [f EXCEPT !.last_error = e, !.pc = "raised"]
    ELSE [f EXCEPT !.last_error = e, !.pc = "generate", !.attempt = @ + 1]

\* MetaData with the outcome of the loop recorded
MetaDataWithOutcome(req) ==
    [version |-> "2.2", provider |-> "groq", model |-> "settings.GROQ_HTML_MODEL",
     generated_at |-> "timezone.now()", original_data |-> req.user_data,
     attempt_count |-> 1, pass |-> TRUE]

\* the keys and values of meta_data
MetaData(req) ==
    [version |-> "2.2", provider |-> "groq", model |-> "settings.GROQ_HTML_MODEL",
     generated_at |-> "timezone.now()", original_data |-> req.user_data]

\* NewPage with html_content=raw_html: the page is stored unsanitized
NewPageRaw(id, req, f) ==
    [id |-> id, email |-> req.email, prompt |-> f.prompt,
     html_content |-> f.raw_html, meta_data |-> MetaData(req), deleted_at |-> << >>]

\* NewPage with prompt=the prompt argument: the text the caller sent is stored
NewPageCallerPrompt(id, req, f) ==
    [id |-> id, email |-> req.email, prompt |-> req.prompt,
     html_content |-> f.clean_html, meta_data |-> MetaData(req), deleted_at |-> << >>]

\* NewPage with clean_html kept in an attribute of the service class, which
\* every request in flight assigns: the page may hold another request's html
NewPageSharedHtml(id, req, f) ==
    [id |-> id, email |-> req.email, prompt |-> f.prompt,
     html_content |-> frame[CHOOSE s \in reqs : frame[s].clean_html # << >>].clean_html,
     meta_data |-> MetaData(req), deleted_at |-> << >>]

\* Page.objects.create(...); deleted_at is << >> for null, <<t>> for a time
NewPage(id, req, f) ==
    [id |-> id, email |-> req.email, prompt |-> f.prompt,
     html_content |-> f.clean_html, meta_data |-> MetaData(req), deleted_at |-> << >>]

\* lines 33-47: compile, validate, set up the loop
Call(r) ==
    /\ frame[r].pc = "call"
    /\ LET prompt == CompiledPrompt(request[r])
       IN  IF TooLong(prompt)
           THEN /\ frame' = [frame EXCEPT ![r].prompt = prompt, ![r].pc = "raised"]
                /\ returned' = [returned EXCEPT ![r] = Raised("ValueError")]
           ELSE /\ frame' = [frame EXCEPT ![r].prompt = prompt, ![r].pc = "generate"]
                /\ UNCHANGED returned
    /\ count' = [count EXCEPT ![r].compiles =
                    IF request[r].user_data # << >> THEN @ + 1 ELSE @]
    /\ UNCHANGED <<reqs, provider, request, pages, sanVars>>

\* the exception handler of the loop, after the collaborator `who` raised e
\* (kind: for generate_html, the provider's answer in that call)
Except(r, who, e, kind) ==
    /\ frame' = [frame EXCEPT ![r] = AfterException(@, e)]
    /\ count' = IF who = "generate"
                THEN [count EXCEPT ![r] = CountGenerate(@, frame[r], kind)]
                ELSE [count EXCEPT ![r][who] = @ + 1]
    /\ returned' = IF AfterException(frame[r], e).pc = "raised"
                   THEN [returned EXCEPT ![r] = Raised(e)]
                   ELSE returned
    /\ UNCHANGED <<reqs, provider, request, pages, sanVars>>

\* lines 54-58: OpenRouterService.generate_html sends its request and gets
\* the provider's answer; it returns, unless its try block raises an
\* exception its except clause does not catch
Generate(r) ==
    /\ frame[r].pc = "generate"
    /\ \E response \in provider :
           IF RaisedInTry(response) # "None" /\ ~Caught(RaisedInTry(response))
           THEN Except(r, "generate", RaisedInTry(response), response.kind)
           ELSE /\ frame' = [frame EXCEPT
                                ![r].raw_html = generate_html(frame[r].prompt, response),
                                ![r].pc = "sanitize"]
                /\ count' = [count EXCEPT
                                ![r] = [CountGenerate(@, frame[r], response.kind)
                                           EXCEPT !.generated_at = frame[r].attempt + 1]]
                /\ UNCHANGED <<reqs, provider, request, returned, pages, sanVars>>

\* lines 54-58: OpenRouterService.generate_html raises before its try block
GenerateRaises(r) ==
    /\ frame[r].pc = "generate"
    /\ Except(r, "generate", "GenerateError", "unsent")

\* line 61: HtmlSanitizationService.sanitize returns
Sanitize(r) ==
    /\ frame[r].pc = "sanitize"
    /\ frame' = [frame EXCEPT ![r].clean_html = sanitize(frame[r].raw_html),
                              ![r].pc = "verify"]
    /\ count' = [count EXCEPT ![r].sanitize = @ + 1,
                              ![r].sanitized_at = frame[r].attempt + 1,
                              ![r].artifact = frame'[r].clean_html]
    /\ UNCHANGED <<reqs, provider, request, returned, pages, sanVars>>

\* line 61: HtmlSanitizationService.sanitize raises
SanitizeRaises(r) ==
    /\ frame[r].pc = "sanitize"
    /\ Except(r, "sanitize", "SanitizeError", "")

\* lines 64-72: CdnVerificationService.verify_links returns
Verify(r) ==
    /\ frame[r].pc = "verify"
    /\ \E probes \in [1..Len(ExternalLinks(frame[r].clean_html)) -> ProbeOutcomes] :
           LET broken_links == verify_links(frame[r].clean_html, probes)
           IN  /\ frame' = [frame EXCEPT ![r] = AfterVerify(@, broken_links)]
               /\ count' = [count EXCEPT
                      ![r].verify = @ + 1,
                      ![r].passed_at = IF broken_links = << >> /\ @ = 0
                                       THEN frame[r].attempt + 1 ELSE @,
                      ![r].failed = IF broken_links # << >> THEN @ + 1 ELSE @,
                      ![r].cdn_ok = IF TailwindReached(frame[r].clean_html, probes)
                                    THEN @ \cup {frame[r].attempt + 1} ELSE @]
    /\ UNCHANGED <<reqs, provider, request, returned, pages, sanVars>>

\* line 64: CdnVerificationService.verify_links raises
VerifyRaises(r) ==
    /\ frame[r].pc = "verify"
    /\ Except(r, "verify", "VerifyError", "")

\* Save with Page.objects.create also inside the loop, after each sanitize
SaveInLoop(r) ==
    /\ \/ frame[r].pc = "save"
       \/ frame[r].pc = "verify" /\ count[r].saves < count[r].sanitize
    /\ pages' = Append(pages, NewPage(Len(pages) + 1, request[r], frame[r]))
    /\ returned' = IF frame[r].pc = "save"
                   THEN [returned EXCEPT ![r] = ReturnedPage(Len(pages) + 1)]
                   ELSE returned
    /\ frame' = IF frame[r].pc = "save" THEN [frame EXCEPT ![r].pc = "done"] ELSE frame
    /\ count' = [count EXCEPT ![r].saves = @ + 1]
    /\ UNCHANGED <<reqs, provider, request, sanVars>>

\* lines 81-97: create the page and return it
Save(r) ==
    /\ frame[r].pc = "save"
    /\ pages' = Append(pages, NewPage(Len(pages) + 1, request[r], frame[r]))
    /\ returned' = [returned EXCEPT ![r] = ReturnedPage(Len(pages) + 1)]
    /\ frame' = [frame EXCEPT ![r].pc = "done"]
    /\ count' = [count EXCEPT ![r].saves = @ + 1]
    /\ UNCHANGED <<reqs, provider, request, sanVars>>

(***************************************************************************)
(* The inputs                                                              *)
(***************************************************************************)
PlainPrompt(n) ==
    [len |-> n, text |-> <<TokText("a birthday page for Sam")>>, details |-> << >>]

\* a prompt that carries markup
MarkupPrompt ==
    [len |-> 40,
     text |-> <<TokText("page with ")>>
              \o Serialize(<<Elem("script", << >>, <<Text("alert(1)")>>)>>),
     details |-> << >>]

RawPrompts ==
    {PlainPrompt(24), PlainPrompt(MaxPromptLen), PlainPrompt(MaxPromptLen + 1), MarkupPrompt}

Field(key, klen, value, vlen) == [key |-> key, klen |-> klen, value |-> value, vlen |-> vlen]

SmallData ==
    <<Field("occasion", 8, "birthday", 8), Field("title", 5, "Party", 5),
      Field("name", 4, "Sam", 3), Field("email", 5, "sam@example.org", 15),
      Field("sub_type", 8, "wish", 4), Field("note", 4, "", 0),
      Field("message", 7, "Happy birthday", 14)>>

\* a mapping whose compiled prompt is longer than the ceiling
BigData == <<Field("message", 7, "a very long message", MaxPromptLen)>>

RequestInputs ==
    {[email |-> "sam@example.org", prompt |-> p, user_data |-> << >>] : p \in RawPrompts}
    \cup {[email |-> "sam@example.org", prompt |-> PlainPrompt(24), user_data |-> u] :
             u \in {SmallData, BigData}}

\* a complete page: Tailwind, a stylesheet link, fenced as Markdown
GoodPage ==
    <<FenceHtml, TokText("\n")>>
    \o Serialize(<<Doctype("html"),
         Elem("html", << >>,
           <<Elem("head", << >>,
               <<Elem("meta", <<Attr(A_charset, "UTF-8")>>, << >>),
                 Elem("meta", <<Attr(A_name, "viewport"),
                                Attr(A_content, "width=device-width, initial-scale=1.0")>>,
                      << >>),
                 Elem("script", <<Attr(A_src, TAILWIND_CDN)>>, << >>),
                 Elem("link", <<<<A_href, <<"https://", "fonts.googleapis.com/css">>>>>>,
                      << >>)>>),
             Elem("body", << >>, <<Elem("h1", << >>, <<Text("Happy Birthday")>>)>>)>>)>>)
    \o <<TokText("\n"), Fence>>

\* a fragment after a reasoning block: handlers, scripts, a style block
BadFragment ==
    Serialize(<<Elem("think", << >>, <<Text("plan")>>),
                Elem("div", <<Attr(A_onclick, "steal()"), Attr(A_class, "p-4")>>,
                     <<Text("Hello")>>),
                Elem("script", << >>, <<Text("alert(1)")>>),
                Elem("script", <<<<A_src, <<"https://", "evil.example/x.js">>>>>>, << >>),
                Elem("style", << >>, <<Text("body{}")>>)>>)

Contents == {GoodPage, BadFragment}

\* what the provider may answer a call of generate_html with
Responses == FailedResponses \cup {[kind |-> "ok", content |-> c] : c \in Contents}

(***************************************************************************)
(* The pipeline: the calls of generate_page                                *)
(***************************************************************************)
PipeInit(ids) ==
    /\ reqs = ids
    /\ provider = Responses
    /\ request \in [ids -> RequestInputs]
    /\ frame = [r \in ids |-> InitFrame(request[r])]
    /\ count = [r \in ids |-> InitCount]
    /\ returned = [r \in ids |-> NoResult]
    /\ pages = << >>

SanIdle == doc = << >> /\ out = << >> /\ phase = "idle" /\ probed = << >> /\ log = << >>

Init == PipeInit({1}) /\ SanIdle

Next ==
    \/ \E r \in reqs : Call(r)
    \/ \E r \in reqs : Generate(r)
    \/ \E r \in reqs : GenerateRaises(r)
    \/ \E r \in reqs : Sanitize(r)
    \/ \E r \in reqs : SanitizeRaises(r)
    \/ \E r \in reqs : Verify(r)
    \/ \E r \in reqs : VerifyRaises(r)
    \/ \E r \in reqs : Save(r)

Spec == Init /\ [][Next]_vars

(***************************************************************************)
(* Two calls of generate_page in flight at once, their steps interleaved   *)
(* in every order: one caller sends a text, the other a mapping of fields. *)
(* The provider is down, so that each call's html is the fallback page     *)
(* around its own prompt; generate_html and sanitize return, and an        *)
(* attempt ends by exception when verify_links raises.                     *)
(***************************************************************************)
TwoRequests ==
    [r \in {1, 2} |->
        [email |-> "sam@example.org", prompt |-> PlainPrompt(24),
         user_data |-> IF r = 1 THEN << >> ELSE SmallData]]

TwoInit ==
    /\ reqs = {1, 2}
    /\ provider = {[kind |-> "transport_error", content |-> << >>]}
    /\ request = TwoRequests
    /\ frame = [r \in reqs |-> InitFrame(request[r])]
    /\ count = [r \in reqs |-> InitCount]
    /\ returned = [r \in reqs |-> NoResult]
    /\ pages = << >>
    /\ SanIdle

TwoNext ==
    \/ \E r \in reqs : Call(r)
    \/ \E r \in reqs : Generate(r)
    \/ \E r \in reqs : Sanitize(r)
    \/ \E r \in reqs : Verify(r)
    \/ \E r \in reqs : VerifyRaises(r)
    \/ \E r \in reqs : Save(r)

SpecTwo == TwoInit /\ [][TwoNext]_vars

(***************************************************************************)
(* The sanitizer on its own.  The raw text is written node by node (each   *)
(* new node is put last into an element that is still open at the end of   *)
(* the text, or at top level), up to MaxNodes nodes; at any point the text *)
(* written so far is handed to sanitize.                                   *)
(***************************************************************************)
MaxNodes == 3

\* the nodes written whole: scripts, a style block, metas, text, a doctype
Leaves ==
    {Elem("script", << >>, <<Text("alert(1)")>>),
     Elem("script", <<<<A_src, <<"https://", "evil.example/x.js">>>>>>, << >>),
     Elem("script", <<<<A_src, <<"https://evil.example/?", "cdnjs.cloudflare.com">>>>,
                      Attr(A_onload, "track()")>>, << >>),
     Elem("script", <<<<A_src, <<"https://", "kit.fontawesome.com", "/a.js">>>>>>, << >>),
     Elem("script", <<Attr(A_src, TAILWIND_CDN)>>, << >>),
     Elem("script", <<<<A_src, <<TAILWIND_CDN, "?plugins=forms">>>>>>, << >>),
     Elem("style", << >>, <<Text("body{}")>>),
     Elem("meta", <<Attr(A_charset, "UTF-8")>>, << >>),
     Elem("meta", <<Attr(A_name, "viewport"), Attr(A_content, "width=device-width")>>, << >>),
     Text("Hello"),
     Text("\n"),
     Doctype("html")}

\* the elements that take further nodes
Containers ==
    {Elem("html", << >>, << >>),
     Elem("head", << >>, << >>),
     Elem("div", <<Attr(A_onclick, "steal()"), Attr(A_class, "p-4")>>, << >>)}

ContainerNames == {c.name : c \in Containers}

\* the number of nodes of a text written this way
NodeCount(text) ==
    Cardinality({i \in DOMAIN text :
        /\ text[i].t # "close"
        /\ ~(text[i].t = "text" /\ i > 1 /\ text[i - 1].t = "open"
             /\ text[i - 1].name \in {"script", "style"})})

\* the number of elements still open to further nodes at the end of the text
OpenAtEnd(text) ==
    LET closing(i) == text[i].t = "close" /\ text[i].name \in ContainerNames
        stop == {i \in DOMAIN text : ~closing(i)}
    IN  IF stop = {} THEN Len(text)
        ELSE Len(text) - (CHOOSE i \in stop : \A j \in stop : j <= i)

SanInit ==
    /\ PipeInit({})
    /\ doc = << >>
    /\ out = << >>
    /\ phase = "raw"
    /\ probed = << >>
    /\ log = << >>

\* a node as the raw text has it: a declaration with nothing after it
RawText(n) == IF n.name = "#doctype" THEN <<TokDoctype(n.data)>> ELSE Serialize(<<n>>)

\* the environment writes one more node into the raw text
Write ==
    /\ phase = "raw"
    /\ NodeCount(doc) < MaxNodes
    /\ \E n \in Leaves \cup Containers, depth \in 0..OpenAtEnd(doc) :
           doc' = SubSeq(doc, 1, Len(doc) - depth)
                  \o RawText(n)
                  \o SubSeq(doc, Len(doc) - depth + 1, Len(doc))
    /\ UNCHANGED <<out, phase, probed, log, pipeVars>>

\* clean = HtmlSanitizationService.sanitize(raw)
SanitizeDoc ==
    /\ phase = "raw"
    /\ out' = sanitize(doc)
    /\ phase' = "clean"
    /\ UNCHANGED <<doc, probed, log, pipeVars>>

SanNext == Write \/ SanitizeDoc

SpecSan == SanInit /\ [][SanNext]_vars

(***************************************************************************)
(* The Page table of core/models.py on its own: pages are created, deleted *)
(* softly (Page.delete()) and deleted for good (Page.delete(soft=False)),  *)
(* MaxOps operations in all.  pages holds the rows of the table.           *)
(***************************************************************************)
MaxOps == 5

\* Page.objects: models.Manager(), every row of the table
objects == pages

\* PageManager.get_queryset without the filter
active_objects_unfiltered == pages

\* Page.active_objects: PageManager, filter(deleted_at__isnull=True)
active_objects == SelectSeq(pages, LAMBDA row : row.deleted_at = << >>)

\* the request the pages of this harness are created for
StoreRequest ==
    [email |-> "sam@example.org", prompt |-> PlainPrompt(24), user_data |-> << >>]

\* the ids of the log entries of one kind
LoggedIds(op) == {log[i].id : i \in {j \in DOMAIN log : log[j].op = op}}

StoreInit ==
    /\ PipeInit({})
    /\ doc = << >>
    /\ out = << >>
    /\ phase = "store"
    /\ probed = << >>
    /\ log = << >>

\* Page.objects.create(...): a new row with an id of its own
Create ==
    /\ Len(log) < MaxOps
    /\ LET id == Cardinality(LoggedIds("create")) + 1
       IN  /\ pages' = Append(pages, NewPage(id, StoreRequest, InitFrame(StoreRequest)))
           /\ log' = Append(log, [op |-> "create", id |-> id])
    /\ UNCHANGED <<reqs, provider, request, frame, count, returned, doc, out, phase, probed>>

\* page.delete(): deleted_at = timezone.now(), then save()
SoftDelete ==
    /\ Len(log) < MaxOps
    /\ \E i \in DOMAIN pages :
           /\ pages' = [pages EXCEPT ![i].deleted_at = <<"timezone.now()">>]
           /\ log' = Append(log, [op |-> "soft", id |-> pages[i].id])
    /\ UNCHANGED <<reqs, provider, request, frame, count, returned, doc, out, phase, probed>>

\* page.delete(soft=False): models.Model.delete, the row is removed
HardDelete ==
    /\ Len(log) < MaxOps
    /\ \E i \in DOMAIN pages :
           /\ pages' = SubSeq(pages, 1, i - 1) \o SubSeq(pages, i + 1, Len(pages))
           /\ log' = Append(log, [op |-> "hard", id |-> pages[i].id])
    /\ UNCHANGED <<reqs, provider, request, frame, count, returned, doc, out, phase, probed>>

StoreNext == Create \/ SoftDelete \/ HardDelete

SpecStore == StoreInit /\ [][StoreNext]_vars

(***************************************************************************)
(* construct_prompt on its own.  The mapping is filled field by field, up  *)
(* to MaxFields fields with different keys; at any point it is handed to   *)
(* construct_prompt.                                                       *)
(***************************************************************************)
MaxFields == 3

\* the fields a mapping may carry: keys the compiler reads for the header,
\* keys it does not know, a field with an empty value
FieldPool ==
    {Field("occasion", 8, "birthday", 8), Field("title", 5, "Party", 5),
     Field("theme", 5, "dark", 4), Field("email", 5, "sam@example.org", 15),
     Field("sub_type", 8, "wish", 4), Field("visual_richness", 15, "high", 4),
     Field("ui_tier", 7, "festive", 7), Field("name", 4, "Sam", 3),
     Field("note", 4, "", 0), Field("message", 7, "Happy birthday", 14)}

CompInit ==
    /\ PipeInit({})
    /\ doc = << >>
    /\ out = << >>
    /\ phase = "fields"
    /\ probed = << >>
    /\ log = << >>

\* the caller puts one more field into the mapping
AddField ==
    /\ phase = "fields"
    /\ Len(doc) < MaxFields
    /\ \E f \in FieldPool :
           /\ ~HasField(doc, f.key)
           /\ doc' = Append(doc, f)
    /\ UNCHANGED <<out, phase, probed, log, pipeVars>>

\* prompt = MetaPromptService.construct_prompt(user_data)
Compile ==
    /\ phase = "fields"
    /\ out' = construct_prompt(doc)
    /\ phase' = "compiled"
    /\ UNCHANGED <<doc, probed, log, pipeVars>>

CompNext == AddField \/ Compile

SpecComp == CompInit /\ [][CompNext]_vars

(***************************************************************************)
(* verify_links on its own.  The text is written tag by tag, up to         *)
(* MaxLinks tags; at any point it is handed to verify_links, with any      *)
(* outcome of the probe of each external link.                             *)
(***************************************************************************)
MaxLinks == 3

\* tags with a reference: scripts and links with an absolute and with a
\* relative URL, an anchor (neither script nor link)
LinkTags ==
    {Elem("script", <<Attr(A_src, TAILWIND_CDN)>>, << >>),
     Elem("script", <<<<A_src, <<"js/", "app.js">>>>>>, << >>),
     Elem("link", <<<<A_href, <<"https://", "fonts.googleapis.com/css">>>>>>, << >>),
     Elem("link", <<<<A_href, <<"httpdocs/", "site.css">>>>>>, << >>),
     Elem("a", <<<<A_href, <<"https://", "example.org/">>>>>>, <<Text("Hello")>>)}

VerInit ==
    /\ PipeInit({})
    /\ doc = << >>
    /\ out = << >>
    /\ phase = "links"
    /\ probed = << >>
    /\ log = << >>

\* the environment writes one more tag into the text
WriteLink ==
    /\ phase = "links"
    /\ NodeCount(doc) < MaxLinks
    /\ \E n \in LinkTags : doc' = doc \o Serialize(<<n>>)
    /\ UNCHANGED <<out, phase, probed, log, pipeVars>>

\* broken_links = CdnVerificationService.verify_links(text)
VerifyDoc ==
    /\ phase = "links"
    /\ \E p \in [1..Len(ExternalLinks(doc)) -> ProbeOutcomes] :
           /\ probed' = p
           /\ out' = verify_links(doc, p)
    /\ phase' = "verified"
    /\ UNCHANGED <<doc, log, pipeVars>>

VerNext == WriteLink \/ VerifyDoc

SpecVer == VerInit /\ [][VerNext]_vars

(***************************************************************************)
(* Properties of generate_page (specification Spec)                        *)
(***************************************************************************)
\* the page call r returned
PageOf(r) == pages[returned[r].page]

AtEnd(r) == frame[r].pc \in {"save", "done"}

\* C1: in every call the number of Generate calls, of Sanitize calls and of
\* Verify calls is at most 3, raised ones included, and every attempt makes
\* at most one Generate call: an attempt that raises uses up one of the 3.
C1_RetryBudget ==
    \A r \in reqs :
        /\ count[r].generate <= max_retries
        /\ count[r].sanitize <= max_retries
        /\ count[r].verify <= max_retries
        /\ count[r].generate <= frame[r].attempt + 1
        /\ frame[r].attempt < max_retries

\* a call that made all 3 Generate calls, had an attempt raise, and returned
C1_Witness ==
    \E r \in reqs :
        /\ count[r].generate = max_retries
        /\ frame[r].last_error # "None"
        /\ frame[r].pc = "done"

\* C2: once Verify returned the empty list at attempt k the loop is left: the
\* call stands at the save, k Generate calls were made and no call of
\* Generate, Sanitize or Verify follows, and the page stored holds what
\* Sanitize returned at attempt k; with k = 1 exactly one cycle ran.
C2_VerifiedAttemptEndsLoop ==
    \A r \in reqs :
        count[r].passed_at # 0 =>
            /\ AtEnd(r)
            /\ frame[r].attempt + 1 = count[r].passed_at
            /\ count[r].generate = count[r].passed_at
            /\ count[r].sanitize <= count[r].passed_at
            /\ count[r].verify <= count[r].passed_at
            /\ count[r].sanitized_at = count[r].passed_at
            /\ (count[r].passed_at = 1 =>
                    count[r].sanitize = 1 /\ count[r].verify = 1)
            /\ (frame[r].pc = "done" =>
                    /\ returned[r].kind = "page"
                    /\ PageOf(r).html_content = count[r].artifact)

\* a call whose second attempt verified, with budget left, and that returned
C2_Witness ==
    \E r \in reqs :
        /\ count[r].passed_at = 2
        /\ count[r].failed = 1
        /\ frame[r].pc = "done"

\* C3: when Verify returned a non-empty list 3 times, exactly 3 cycles ran,
\* the call does not raise, and the page it stores and returns holds what
\* Sanitize returned at the third attempt.
C3_ExhaustionStillPersists ==
    \A r \in reqs :
        /\ count[r].failed <= max_retries
        /\ count[r].failed = max_retries =>
              /\ count[r].generate = max_retries
              /\ count[r].sanitize = max_retries
              /\ count[r].verify = max_retries
              /\ AtEnd(r)
              /\ returned[r].kind # "raised"
              /\ (frame[r].pc = "done" =>
                      /\ returned[r].kind = "page"
                      /\ count[r].sanitized_at = max_retries
                      /\ PageOf(r).html_content = count[r].artifact
                      /\ frame[r].broken_links # << >>)

\* a call that returned a page after 3 failed verifications
C3_Witness ==
    \E r \in reqs : count[r].failed = max_retries /\ frame[r].pc = "done"

\* C4: a stored page holds what sanitize returns for the raw artifact of the
\* last attempt that ran: that attempt's Generate and Sanitize both
\* returned, and the content is neither raw, nor stale, nor empty.
C4_StoredIsSanitizedLastAttempt ==
    /\ \A i \in DOMAIN pages : \E r \in reqs : returned[r].page = i
    /\ \A r \in reqs :
          frame[r].pc = "done" =>
              /\ returned[r].kind = "page"
              /\ PageOf(r).html_content = sanitize(frame[r].raw_html)
              /\ PageOf(r).html_content = count[r].artifact
              /\ PageOf(r).html_content # << >>
              /\ count[r].generate = frame[r].attempt + 1
              /\ count[r].generated_at = frame[r].attempt + 1
              /\ count[r].sanitized_at = frame[r].attempt + 1

\* a page stored by a call in which an earlier attempt had sanitized an
\* artifact and a later attempt raised
C4_Witness ==
    \E r \in reqs :
        /\ frame[r].pc = "done"
        /\ frame[r].last_error # "None"
        /\ count[r].sanitize >= 2
        /\ frame[r].attempt >= 1

MetaDataKeys == {"version", "provider", "model", "generated_at", "original_data"}

NodesOf(text) ==
    LET soup == Parse(text)
        paths == PathsFrom(soup, << >>, 1)
    IN  {NodeAt(soup, paths[i]) : i \in DOMAIN paths}

ScriptsOf(text) == {n \in NodesOf(text) : n.name = "script"}

\* the Tailwind script sanitize creates
NewTailwindScript == Elem("script", <<<<A_src, <<TAILWIND_CDN>>>>>>, << >>)

\* no script without src, none whose src holds no allow-listed string
NoForeignScript(text) ==
    \A n \in ScriptsOf(text) : HasAttr(n, A_src) /\ AnyAllowed(GetAttr(n, A_src))

C9_OneTailwindInHead ==
    phase = "clean" =>
        LET soup == Parse(out)
            tw == FindAll(soup, IsTailwindScript)
            heads == FindAll(soup, LAMBDA n : n.name = "head")
        IN  /\ Len(tw) = 1
            /\ heads # << >>
            /\ AllButLast(tw[1]) = heads[1]

\* a sanitized text whose raw text held several Tailwind scripts, one of
\* them nested in an element other than head
C9_Witness ==
    /\ phase = "clean"
    /\ LET soup == Parse(doc)
           tw == FindAll(soup, IsTailwindScript)
       IN  /\ Len(tw) >= 2
           /\ \E i \in DOMAIN tw :
                  Len(tw[i]) >= 2 /\ NodeAt(soup, AllButLast(tw[i])).name = "div"

HasHandler(n) == \E i \in DOMAIN n.attrs : StartsWithOn(n.attrs[i][1])

\* C10: no node of the output carries an attribute whose name begins with on.
C10_NoHandlerAttribute ==
    phase = "clean" => \A n \in NodesOf(out) : ~HasHandler(n)

\* a sanitized text that keeps a script which carried a handler, inside an
\* element which carried one too
C10_Witness ==
    /\ phase = "clean"
    /\ LET soup == Parse(doc)
           kept == FindAll(soup, LAMBDA n : n.name = "script" /\ HasHandler(n))
       IN  \E i \in DOMAIN kept :
               /\ Len(kept[i]) >= 2
               /\ HasHandler(NodeAt(soup, AllButLast(kept[i])))
    /\ \E m \in ScriptsOf(out) :
           GetAttr(m, A_src) = <<"https://evil.example/?", "cdnjs.cloudflare.com">>

\* C11: the output holds no style element, wherever the input had them.
C11_NoStyleElement ==
    phase = "clean" => \A n \in NodesOf(out) : ~IsStyle(n)

\* a sanitized text whose raw text held a style element inside another element
C11_Witness ==
    /\ phase = "clean"
    /\ LET soup == Parse(doc)
           styles == FindAll(soup, IsStyle)
       IN  \E i \in DOMAIN styles : Len(styles[i]) >= 2

IsHead(n) == n.name = "head"

\* C12, as claimed: the output holds exactly one head element, it is a child
\* of the html element at the root, and a charset declaration and a viewport
\* declaration are among its children.
C12_OneHeadWithDeclarations ==
    phase = "clean" =>
        LET soup == Parse(out)
            heads == FindAll(soup, IsHead)
        IN  /\ Len(heads) = 1
            /\ Len(heads[1]) = 2
            /\ soup[heads[1][1]].name = "html"
            /\ \E i \in DOMAIN KidsAt(soup, heads[1]) :
                   IsCharsetMeta(KidsAt(soup, heads[1])[i])
            /\ \E i \in DOMAIN KidsAt(soup, heads[1]) :
                   IsViewportMeta(KidsAt(soup, heads[1])[i])

\* C13, as claimed: of the elements in head the first is the charset
\* declaration and the second the viewport declaration.
C13_CharsetThenViewport ==
    phase = "clean" =>
        LET soup == Parse(out)
            heads == FindAll(soup, IsHead)
            elements == SelectSeq(KidsAt(soup, heads[1]), IsTag)
        IN  /\ heads # << >>
            /\ Len(elements) >= 2
            /\ IsCharsetMeta(elements[1])
            /\ IsViewportMeta(elements[2])

IsBody(n) == n.name = "body"

\* C14, as claimed: the output holds a body element; when the input has
\* none, the children of the root html element are the head, the new body,
\* document-type declarations and white space only, everything else having
\* been moved into the body.
C14_BodyEnsured ==
    phase = "clean" =>
        LET soup == Parse(out)
            roots == SelectSeq(soup, LAMBDA n : n.name = "html")
        IN  /\ FindAll(soup, IsBody) # << >>
            /\ FindAll(Parse(doc), IsBody) = << >> =>
                   \A i \in DOMAIN roots : \A j \in DOMAIN roots[i].kids :
                       \/ roots[i].kids[j].name \in {"head", "body", "#doctype"}
                       \/ IsBlank(TokText(roots[i].kids[j].data))

\* C15, as claimed: the output begins with the canonical document-type
\* declaration and holds a document-type declaration exactly once.
C15_OneDoctypeFirst ==
    phase = "clean" =>
        /\ out # << >>
        /\ Head(out) = TokDoctype("html")
        /\ Cardinality({i \in DOMAIN out : out[i].t = "doctype"}) = 1

\* a text without its runs of white space
NoBlanks(text) == SelectSeq(text, LAMBDA tok : ~IsBlank(tok))

\* C16, as claimed: sanitizing an output of sanitize again gives the same
\* text up to white space: the same tokens in the same order, so no second
\* framework script, charset or viewport declaration, and none of them moved.
C16_SanitizeIdempotent ==
    phase = "clean" => NoBlanks(sanitize(out)) = NoBlanks(out)

\* C20: construct_prompt is called at most once per call of generate_page,
\* and before the first attempt; every call of generate_html gets the prompt
\* compiled then, the variable prompt holds it through every attempt, and
\* it is the prompt stored with the page.
C20_OnePromptThroughout ==
    \A r \in reqs :
        /\ count[r].compiles <= 1
        /\ frame[r].pc = "call" => count[r].compiles = 0 /\ count[r].prompts = << >>
        /\ frame[r].pc # "call" =>
               /\ count[r].compiles = 1 <=> request[r].user_data # << >>
               /\ frame[r].prompt = CompiledPrompt(request[r])
        /\ \A i \in DOMAIN count[r].prompts :
               count[r].prompts[i] = CompiledPrompt(request[r])
        /\ returned[r].kind = "page" => PageOf(r).prompt = CompiledPrompt(request[r])

\* a page stored after three attempts, one of which raised, for a request
\* with structured data
C20_Witness ==
    \E r \in reqs :
        /\ returned[r].kind = "page"
        /\ request[r].user_data = SmallData
        /\ Len(count[r].prompts) = 3
        /\ frame[r].last_error # "None"
        /\ PageOf(r).prompt # request[r].prompt

(***************************************************************************)
(* Properties of generate_html and verify_links (specification Spec)       *)
(***************************************************************************)
FailedKinds == {f.kind : f \in FailedResponses}

TryExceptions == {RaisedInTry(f) : f \in FailedResponses}

\* C17: when the provider's answer to a call of generate_html is a transport
\* error, a non-success status, an answer without choices or one without the
\* content field, the call does not raise (no exception of its try block
\* reaches generate_page) and returns the fallback document, the prompt it
\* was called with pasted in.
C17_FailureGivesFallback ==
    \A r \in reqs :
        count[r].response \in FailedKinds =>
            /\ frame[r].last_error \notin TryExceptions
            /\ frame[r].pc = "sanitize" =>
                   LET raw_html == frame[r].raw_html
                       at == Len(FallbackBefore)
                       n == Len(frame[r].prompt.text)
                   IN  /\ Len(raw_html) = at + n + Len(FallbackAfter)
                       /\ SubSeq(raw_html, 1, at) = FallbackBefore
                       /\ SubSeq(raw_html, at + 1, at + n) = frame[r].prompt.text
                       /\ SubSeq(raw_html, at + n + 1, Len(raw_html)) = FallbackAfter

\* generate_html has just returned from a call whose answer had no content
\* field, in a second attempt, for a prompt that carries markup
C17_Witness ==
    \E r \in reqs :
        /\ count[r].response = "no_content"
        /\ frame[r].pc = "sanitize"
        /\ frame[r].attempt = 1
        /\ frame[r].prompt = MarkupPrompt

\* the guarantees of a sanitized document that a text can be tested for: it
\* begins with the document-type declaration, holds one framework script,
\* no script outside the allow-list, no handler attribute, no style element
LooksSanitized(text) ==
    /\ StartsWithDoctypeHtml(LStrip(text))
    /\ Len(FindAll(Parse(text), IsTailwindScript)) = 1
    /\ NoForeignScript(text)
    /\ \A n \in NodesOf(text) : ~HasHandler(n) /\ ~IsStyle(n)

\* C18, as claimed: the document get_fallback_html returns has the
\* guarantees of a sanitized document as it is, and sanitize leaves it
\* unchanged up to white space, whatever the prompt.
C18_FallbackIsSanitized ==
    \A r \in reqs :
        (count[r].response \in FailedKinds /\ frame[r].pc = "sanitize") =>
            /\ LooksSanitized(frame[r].raw_html)
            /\ NoBlanks(sanitize(frame[r].raw_html)) = NoBlanks(frame[r].raw_html)

\* the references of a text, read off its tags: the src of every script that
\* has one, then the href of every link that has one
RefsOf(text) ==
    LET tag(tok) == tok.t \in {"open", "void"}
        src == SelectSeq(text, LAMBDA tok : tag(tok) /\ tok.name = "script"
                                            /\ HasAttr(tok, A_src))
        href == SelectSeq(text, LAMBDA tok : tag(tok) /\ tok.name = "link"
                                             /\ HasAttr(tok, A_href))
    IN  [i \in 1..Len(src) |-> GetAttr(src[i], A_src)]
        \o [i \in 1..Len(href) |-> GetAttr(href[i], A_href)]

\* a reference with a scheme: http:// or https://
SchemeQualified(value) ==
    Len(value) >= 1 /\ value[1] \in {TAILWIND_CDN, "https://", "http://"}

\* verify_links returned, in their order, the references among `probed`
\* whose probe (the i-th outcome for the i-th of them) raised or gave a
\* status of 400 or above, and the empty list exactly when there is none
ReturnsTheBroken(probedRefs) ==
    LET bad == {i \in DOMAIN probedRefs :
                   probed[i].raised \/ probed[i].status_code >= 400}
        nth(k) == CHOOSE i \in bad : Cardinality({j \in bad : j <= i}) = k
    IN  /\ DOMAIN probed = DOMAIN probedRefs
        /\ Len(out) = Cardinality(bad)
        /\ \A k \in DOMAIN out : out[k] = probedRefs[nth(k)]
        /\ out = << >> <=>
               \A i \in DOMAIN probedRefs :
                   ~probed[i].raised /\ probed[i].status_code < 400

ReservedKeys == {"occasion", "theme", "title", "email", "sub_type"}

\* details lists, in the order of the mapping, exactly the fields of the
\* mapping that `listed` holds for, each once
ListsInOrder(details, user_data, listed(_)) ==
    LET at == {i \in DOMAIN user_data : listed(user_data[i])}
        nth(k) == CHOOSE i \in at : Cardinality({j \in at : j <= i}) = k
    IN  /\ Len(details) = Cardinality(at)
        /\ \A k \in DOMAIN details : details[k] = user_data[nth(k)].key

\* C21, as claimed: the Content Details block has one line for every field
\* whose key is not reserved, in the order of the mapping, and none for the
\* reserved keys occasion, theme, title, email, sub_type.
C21_LineForEveryNonReserved ==
    phase = "compiled" =>
        ListsInOrder(out.details, doc, LAMBDA f : f.key \notin ReservedKeys)

\* C21, amended: the block has one line for every field whose value is not
\* empty and whose key is none of occasion, email, theme, title,
\* specific_fields, visual_richness, ui_tier, in the order of the mapping;
\* a sub_type field is listed like any other, a field with an empty value
\* is not.
C21_LineForEveryNonExcludedNonEmpty ==
    phase = "compiled" =>
        /\ ListsInOrder(out.details, doc,
               LAMBDA f : /\ f.vlen > 0
                          /\ f.key \notin {"occasion", "email", "theme", "title",
                                            "specific_fields", "visual_richness", "ui_tier"})
        /\ \A i \in DOMAIN doc :
               /\ (doc[i].key = "sub_type" /\ doc[i].vlen > 0) =>
                      \E k \in DOMAIN out.details : out.details[k] = "sub_type"
               /\ doc[i].vlen = 0 =>
                      \A k \in DOMAIN out.details : out.details[k] # doc[i].key

\* a prompt compiled from a mapping with an empty field between a sub_type
\* field and a key outside the list
C21_Witness ==
    /\ phase = "compiled"
    /\ Len(doc) = 3
    /\ doc[1].key = "sub_type"
    /\ doc[2].key = "note"
    /\ doc[3].key = "visual_richness"
    /\ out.details = <<"sub_type">>

(***************************************************************************)
(* The Tailwind URL and the retry loop (specification Spec)                *)
(***************************************************************************)
\* the call is over: the loop is left or the call raised
Ended(r) == frame[r].pc \in {"save", "done", "raised"}

\* the input validation let the call through
Accepted(r) == frame[r].pc # "call" /\ ~TooLong(frame[r].prompt)

\* what Sanitize returned holds the Tailwind script, so Verify probes its
\* URL; Verify returned the empty list only at an attempt whose probe of
\* the Tailwind URL succeeded
TailwindAlwaysProbed(r) ==
    /\ frame[r].clean_html # << >> =>
           \E i \in DOMAIN ExternalLinks(frame[r].clean_html) :
               ExternalLinks(frame[r].clean_html)[i] = <<TAILWIND_CDN>>
    /\ count[r].passed_at # 0 => count[r].passed_at \in count[r].cdn_ok

\* all 3 attempts were used, each with its call of generate_html
AllAttemptsUsed(r) ==
    count[r].generate = max_retries /\ frame[r].attempt = max_retries - 1

\* C24 as stated: every document sanitize returned holds a script with src
\* https://cdn.tailwindcss.com, which verify_links probes; an attempt leaves
\* through Success only if that probe succeeded; and every call in which
\* no probe of that URL succeeded used all 3 attempts.
C24_UnreachableCdnUsesAllAttempts ==
    \A r \in reqs :
        /\ TailwindAlwaysProbed(r)
        /\ (Ended(r) /\ count[r].cdn_ok = {}) => AllAttemptsUsed(r)

\* C24, amended: as above, for every call the input validation let through
\* (a call whose prompt is over the ceiling is rejected before any attempt).
C24_UnreachableCdnUsesAllAttemptsOfAccepted ==
    \A r \in reqs :
        /\ TailwindAlwaysProbed(r)
        /\ (Ended(r) /\ Accepted(r) /\ count[r].cdn_ok = {}) => AllAttemptsUsed(r)

\* the provider answered with a page, no probe of the Tailwind URL succeeded
\* in 3 attempts, the loop ran out and the page was stored all the same
C24_Witness ==
    \E r \in reqs :
        /\ frame[r].pc = "done"
        /\ count[r].response = "ok"
        /\ count[r].cdn_ok = {}
        /\ count[r].failed = max_retries
        /\ PageOf(r).html_content = frame[r].clean_html

\* C25: a call of generate_page creates at most one page, and creates it
\* only after the attempt loop has ended: the table holds a page of the call
\* exactly when the call has returned; while the loop runs, and when the
\* call ended by raising (the input rejected, or an exception at the third
\* attempt), the table is as it was before the call, also when an earlier
\* attempt had produced a sanitized artifact.
C25_StoreWrittenOnceAfterLoop ==
    /\ \A r \in reqs :
           /\ count[r].saves <= 1
           /\ count[r].saves = 1 <=> frame[r].pc = "done"
           /\ frame[r].pc = "done" <=> returned[r].kind = "page"
           /\ frame[r].pc = "raised" <=> returned[r].kind = "raised"
    /\ Len(pages) = Cardinality({r \in reqs : frame[r].pc = "done"})

\* a call that raised at its third attempt after an earlier attempt had
\* produced a sanitized artifact: nothing was stored
C25_Witness ==
    \E r \in reqs :
        /\ frame[r].pc = "raised"
        /\ frame[r].attempt = max_retries - 1
        /\ frame[r].last_error # "None"
        /\ count[r].artifact # << >>
        /\ count[r].failed >= 1
        /\ pages = << >>

(***************************************************************************)
(* Properties of two calls in flight (specification SpecTwo)               *)
(***************************************************************************)
\* the frames one step of generate_page leads to from frame f, for a call
\* that is alone: they depend on the call's own request and frame and on
\* what the provider and the probes answer, and on nothing else
AloneSteps(req, f) ==
    CASE f.pc = "call" ->
           {[f EXCEPT !.prompt = CompiledPrompt(req),
                      !.pc = IF TooLong(CompiledPrompt(req)) THEN "raised"
                             ELSE "generate"]}
      [] f.pc = "generate" ->
           {IF RaisedInTry(response) # "None" /\ ~Caught(RaisedInTry(response))
            THEN AfterException(f, RaisedInTry(response))
            ELSE [f EXCEPT !.raw_html = generate_html(f.prompt, response),
                           !.pc = "sanitize"] :
               response \in provider}
           \cup {AfterException(f, "GenerateError")}
      [] f.pc = "sanitize" ->
           {[f EXCEPT !.clean_html = sanitize(f.raw_html), !.pc = "verify"],
            AfterException(f, "SanitizeError")}
      [] f.pc = "verify" ->
           {AfterVerify(f, verify_links(f.clean_html, probes)) :
               probes \in [1..Len(ExternalLinks(f.clean_html)) -> ProbeOutcomes]}
           \cup {AfterException(f, "VerifyError")}
      [] f.pc = "save" -> {[f EXCEPT !.pc = "done"]}
      [] OTHER -> {}

\* a step of call r: its frame changes as it would for a call alone, the
\* frame, the bookkeeping and the result of every other call stay as they
\* are, and the table changes only by the page call r creates at its save
StepOfOneCall(r) ==
    /\ frame'[r] # frame[r]
    /\ frame'[r] \in AloneSteps(request[r], frame[r])
    /\ \A s \in reqs \ {r} :
           frame'[s] = frame[s] /\ count'[s] = count[s] /\ returned'[s] = returned[s]
    /\ IF frame[r].pc = "save"
       THEN /\ Len(pages') = Len(pages) + 1
            /\ SubSeq(pages', 1, Len(pages)) = pages
            /\ returned'[r] = ReturnedPage(Len(pages'))
            /\ pages'[Len(pages')].prompt = frame[r].prompt
            /\ pages'[Len(pages')].html_content = frame[r].clean_html
       ELSE pages' = pages

\* a call that returned holds a page of its own, with its own compiled
\* prompt and the html its own last Sanitize returned
OwnPage(r) ==
    returned[r].kind = "page" =>
        /\ PageOf(r).prompt = CompiledPrompt(request[r])
        /\ PageOf(r).html_content = count[r].artifact
        /\ \A s \in reqs \ {r} :
               returned[s].kind = "page" => returned[s].page # returned[r].page

\* C23: with two calls of generate_page in flight and their steps
\* interleaved in any order, every step is a step of one call that changes
\* that call's attempt, prompt and html exactly as a step of a call running
\* alone would under the same provider answer and probe outcomes, and
\* leaves the other call's state alone; each call that returns has stored a
\* page of its own holding its own compiled prompt and its own html.
C23_ConcurrentCallsIndependent ==
    /\ [](\A r \in reqs : OwnPage(r))
    /\ [][\E r \in reqs : StepOfOneCall(r)]_vars

\* both calls returned a page after interleaved steps: call 2 entered last
\* sanitize after call 1 and stored its page first; the two pages differ
C23_Witness ==
    /\ returned[1].kind = "page" /\ returned[2].kind = "page"
    /\ returned[2].page < returned[1].page
    /\ PageOf(1).html_content # PageOf(2).html_content
    /\ PageOf(1).prompt # PageOf(2).prompt
    /\ frame[1].attempt # frame[2].attempt

(***************************************************************************)
(* Properties of the Page table (specification SpecStore)                  *)
(***************************************************************************)
IdsOf(rows) == {rows[i].id : i \in DOMAIN rows}

\* C22: a page deleted softly and not for good has a deleted_at that is
\* not null, is among Page.objects and not among Page.active_objects;
\* active_objects is exactly the stored pages whose deleted_at is null, in
\* the order of the table; a page deleted for good is in neither.
C22_SoftDeleteHidesHardDeleteRemoves ==
    /\ \A id \in LoggedIds("soft") \ LoggedIds("hard") :
           /\ \E i \in DOMAIN objects :
                  objects[i].id = id /\ objects[i].deleted_at # << >>
           /\ id \notin IdsOf(active_objects)
    /\ IdsOf(active_objects) =
           LoggedIds("create") \ (LoggedIds("soft") \cup LoggedIds("hard"))
    /\ \A i \in DOMAIN active_objects :
           /\ active_objects[i].deleted_at = << >>
           /\ \E j \in DOMAIN pages : pages[j] = active_objects[i]
    /\ \A id \in LoggedIds("hard") :
           id \notin IdsOf(objects) /\ id \notin IdsOf(active_objects)

\* a table with an active page, a page deleted softly and a page deleted
\* for good after a soft delete
C22_Witness ==
    /\ Cardinality(LoggedIds("create")) >= 2
    /\ LoggedIds("soft") \ LoggedIds("hard") # {}
    /\ LoggedIds("hard") # {}
    /\ Len(objects) > Len(active_objects)

====
